---- MODULE Spec2Model ----
\* Paint-pass traversal contexts (frui_core PaintContextOS) and alignment
\* geometry (frui_widgets Alignment / AlignmentDirectional).
EXTENDS Integers, Sequences, FiniteSets, TLC

\* ------------------------------------------------------------------ bounds
NumNodes == 3      \* nodes of the tree, 1 is the root
MaxCoord == 1      \* absolute paint offsets have x + y <= MaxCoord
MaxSize == 1       \* layout resolves a size <<s, s + 1>> with 1 <= s <= MaxSize
NumTypes == 2      \* concrete parent-data types 1..NumTypes (0 is the unit type)
MaxVal == 2        \* parent-data values 1..MaxVal
MaxCtx == 5        \* context instances alive at once
MaxViews == 2      \* parent-data views (Ref / RefMut) held at once
MaxDepth == 2      \* nested widget paint calls
MaxOps == 5        \* operations of one pass
MaxAlign == 3      \* alignment coordinates are k/2 with -MaxAlign <= k <= MaxAlign
MaxDim == 3        \* widths and heights 0..MaxDim
MantBits == 3      \* significand bits of the floating-point format of the arithmetic operators
MaxExp == 1        \* operands of the arithmetic operators lie in (-2^(MaxExp+1), 2^(MaxExp+1))

VARIABLES
    kids,          \* node -> ordered child list (node.children())
    render_data,   \* node -> RenderData {size, local_offset, laid_out, parent_data}
    borrow,        \* node -> the node's borrow flag: 0 free, k > 0 shared, -1 exclusive
    ctxs,          \* live PaintContextOS instances: id -> {node, offset, parent_offset, owner}
    views,         \* held Ref / RefMut handles, oldest first
    stack,         \* widget paint calls in progress, outermost first
    yielded,       \* node -> what each children() run on it yielded (bound nodes), oldest first
    result,        \* outcome of the last operation
    ops,           \* operations performed so far
    al             \* the last application of an alignment function

vars == <<kids, render_data, borrow, ctxs, views, stack, yielded, result, ops, al>>

Nodes == 1..NumNodes
CtxIds == 1..MaxCtx
Types == 1..NumTypes
Vals == 1..MaxVal
\* the type of the slot's initial content, ()
UnitType == 0
\* the root of the tree
Root == CHOOSE n \in Nodes : \A m \in Nodes : n <= m

Offsets == {o \in (0..MaxCoord) \X (0..MaxCoord) : o[1] + o[2] <= MaxCoord}
Sizes == {<<s, s + 1>> : s \in 1..MaxSize}

\* Cell::<Offset>::default()
ZeroOffset == <<0, 0>>

\* Offset - Offset, componentwise
OffsetSub(a, b) == <<a[1] - b[1], a[2] - b[2]>>

\* ------------------------------------------------------------------ tree
\* Every tree over Nodes in which the parent of node i > 1 is a smaller node;
\* the child list of a node is in increasing order.
ParentMaps == {p \in [Nodes \ {1} -> Nodes] : \A i \in Nodes \ {1} : p[i] < i}

RECURSIVE SortedSeq(_)
SortedSeq(S) ==
    IF S = {} THEN <<>>
    ELSE LET m == CHOOSE x \in S : \A y \in S : x <= y
         IN <<m>> \o SortedSeq(S \ {m})

KidsOf(p) == [n \in Nodes |-> SortedSeq({i \in Nodes \ {1} : p[i] = n})]

DefaultRenderData ==
    [size |-> <<0, 0>>, local_offset |-> ZeroOffset, laid_out |-> FALSE,
     parent_data |-> <<UnitType, 0>>]

\* ------------------------------------------------------------------ helpers
depth == Len(stack)
halted == result.status = "panic"

Outcome(op, status, c, arg, val) ==
    [op |-> op, status |-> status, ctx |-> c, arg |-> arg, val |-> val]

\* the lowest k context ids not in use, as a sequence
FreeIds == CtxIds \ DOMAIN ctxs
RECURSIVE TakeIds(_, _)
TakeIds(S, k) ==
    IF k = 0 THEN <<>>
    ELSE LET m == CHOOSE x \in S : \A y \in S : x <= y
         IN <<m>> \o TakeIds(S \ {m}, k - 1)

\* contexts the running code can name: the ones its own frame owns
Usable == {c \in DOMAIN ctxs : ctxs[c].owner = depth}

\* node.borrow() / node.borrow_mut() succeed
CanBorrow(n) == borrow[n] >= 0
CanBorrowMut(n) == borrow[n] = 0

Derived_OwnParentOffset(c, childNode) ==
    [node |-> childNode, offset |-> ZeroOffset, parent_offset |-> ctxs[c].parent_offset,
     owner |-> depth, from |-> c, writes |-> 0]

\* PaintContextOS { node, offset: Cell::default(), parent_offset: self.offset.clone() }
\* (owner: the frame holding the value; from: the context it was derived from;
\*  writes: how often its offset cell was set)
Derived(c, childNode) ==
    [node |-> childNode, offset |-> ZeroOffset, parent_offset |-> ctxs[c].offset,
     owner |-> depth, from |-> c, writes |-> 0]

Extend(f, ids, recs) ==
    [i \in DOMAIN f \cup {ids[k] : k \in DOMAIN ids} |->
        IF i \in DOMAIN f THEN f[i]
        ELSE recs[CHOOSE k \in DOMAIN ids : ids[k] = i]]

Step == /\ ~halted
        /\ ops < MaxOps
        /\ ops' = ops + 1
        /\ al' = al

NoAl == [op |-> "none", a |-> <<>>, arg |-> <<>>, out |-> <<>>]

\* ------------------------------------------------------------------ alignment geometry
\* f64 values are modelled as exact fractions <<numerator, denominator>> in
\* lowest terms with a positive denominator.
RECURSIVE Gcd(_, _)
Gcd(a, b) == IF b = 0 THEN a ELSE Gcd(b, a % b)
Abs(a) == IF a < 0 THEN -a ELSE a
Norm(n, d) ==
    LET g == Gcd(Abs(n), Abs(d))
        sgn == IF d < 0 THEN -1 ELSE 1
    IN <<sgn * (n \div g), sgn * (d \div g)>>
F(n) == <<n, 1>>
FAdd(a, b) == Norm(a[1] * b[2] + b[1] * a[2], a[2] * b[2])
FSub(a, b) == Norm(a[1] * b[2] - b[1] * a[2], a[2] * b[2])
FMul(a, b) == Norm(a[1] * b[1], a[2] * b[2])
FDiv(a, b) == Norm(a[1] * b[2], a[2] * b[1])
FNeg(a) == <<-a[1], a[2]>>

TOP_LEFT == [x |-> F(-1), y |-> F(-1)]
TOP_CENTER == [x |-> F(0), y |-> F(-1)]
TOP_RIGHT == [x |-> F(1), y |-> F(-1)]
CENTER_LEFT == [x |-> F(-1), y |-> F(0)]
CENTER == [x |-> F(0), y |-> F(0)]
CENTER_RIGHT == [x |-> F(1), y |-> F(0)]
BOTTOM_LEFT == [x |-> F(-1), y |-> F(1)]
BOTTOM_CENTER == [x |-> F(0), y |-> F(1)]
BOTTOM_RIGHT == [x |-> F(1), y |-> F(1)]

\* AlignmentDirectional::new(start, y)
Directional(start, y) == [start |-> start, y |-> y]
CENTER_START == Directional(F(-1), F(0))

along_CenterYForX(self, size) ==
    LET center_x == FDiv(size.width, F(2))
        center_y == FDiv(size.height, F(2))
    IN [x |-> FAdd(center_y, FMul(self.x, center_y)),
        y |-> FAdd(center_y, FMul(self.y, center_y))]

\* Alignment::along(&self, size)
along(self, size) ==
    LET center_x == FDiv(size.width, F(2))
        center_y == FDiv(size.height, F(2))
    IN [x |-> FAdd(center_x, FMul(self.x, center_x)),
        y |-> FAdd(center_y, FMul(self.y, center_y))]

\* <Alignment as AlignmentGeometry>::resolve(&self, _)
Alignment_resolve(self, text_direction) == self

AlignmentDirectional_resolve_NeverNegates(self, text_direction) ==
    [x |-> self.start, y |-> self.y]

\* <AlignmentDirectional as AlignmentGeometry>::resolve(&self, text_direction)
AlignmentDirectional_resolve(self, text_direction) ==
    LET start == IF text_direction = "Ltr" THEN self.start ELSE FNeg(self.start)
    IN [x |-> start, y |-> self.y]

\* ---- floating-point rounding: a binary format with MantBits significand
\* bits, round to nearest, ties to even, exponent range not limited
RECURSIVE Pow2(_)
Pow2(k) == IF k = 0 THEN 1 ELSE 2 * Pow2(k - 1)

RoundHalfEven(num, den) ==
    LET q == num \div den
        r == num % den
    IN IF 2 * r < den THEN q
       ELSE IF 2 * r > den THEN q + 1
       ELSE IF q % 2 = 0 THEN q ELSE q + 1

\* num / den > 0 rounded to MantBits significand bits; e counts the scaling
RECURSIVE RoundScaled(_, _, _)
RoundScaled(num, den, e) ==
    IF num >= Pow2(MantBits) * den THEN RoundScaled(num, 2 * den, e + 1)
    ELSE IF num < Pow2(MantBits - 1) * den THEN RoundScaled(2 * num, den, e - 1)
    ELSE LET m == RoundHalfEven(num, den)
         IN IF e >= 0 THEN <<m * Pow2(e), 1>> ELSE Norm(m, Pow2(-e))

Round(q) ==
    IF q[1] = 0 THEN F(0)
    ELSE IF q[1] > 0 THEN RoundScaled(q[1], q[2], 0)
    ELSE FNeg(RoundScaled(-q[1], q[2], 0))

\* f64 + and f64 - : the exact result, rounded
f64_add(a, b) == Round(FAdd(a, b))
f64_sub(a, b) == Round(FSub(a, b))

Alignment_add_SubtractsY(self, rhs) ==
    [x |-> f64_add(self.x, rhs.x), y |-> f64_sub(self.y, rhs.y)]

\* impl Add for Alignment
Alignment_add(self, rhs) ==
    [x |-> f64_add(self.x, rhs.x), y |-> f64_add(self.y, rhs.y)]

\* impl Sub for Alignment
Alignment_sub(self, rhs) ==
    [x |-> f64_sub(self.x, rhs.x), y |-> f64_sub(self.y, rhs.y)]

\* impl Neg for Alignment
Alignment_neg(self) == [x |-> FNeg(self.x), y |-> FNeg(self.y)]

\* impl Add for AlignmentDirectional
AlignmentDirectional_add(self, rhs) ==
    [start |-> f64_add(self.start, rhs.start), y |-> f64_add(self.y, rhs.y)]

\* impl Sub for AlignmentDirectional
AlignmentDirectional_sub(self, rhs) ==
    [start |-> f64_sub(self.start, rhs.start), y |-> f64_sub(self.y, rhs.y)]

\* impl Neg for AlignmentDirectional
AlignmentDirectional_neg(self) == [start |-> FNeg(self.start), y |-> FNeg(self.y)]

\* ---- Display for Alignment
\* Alignment::PRELUDES
PRELUDES ==
    << <<TOP_LEFT, "Alignment::TOP_LEFT">>,
       <<TOP_CENTER, "Alignment::TOP_CENTER">>,
       <<TOP_RIGHT, "Alignment::TOP_RIGHT">>,
       <<CENTER_LEFT, "Alignment::CENTER_LEFT">>,
       <<CENTER, "Alignment::CENTER">>,
       <<CENTER_RIGHT, "Alignment::CENTER_RIGHT">>,
       <<BOTTOM_LEFT, "Alignment::BOTTOM_LEFT">>,
       <<BOTTOM_CENTER, "Alignment::BOTTOM_CENTER">>,
       <<BOTTOM_RIGHT, "Alignment::BOTTOM_RIGHT">> >>

Alignment_eq_XOnly(a, b) == a.x = b.x

\* #[derive(PartialEq)] for Alignment
Alignment_eq(a, b) == a.x = b.x /\ a.y = b.y

\* <Alignment as Display>::fmt, from entry i of PRELUDES on: the text written,
\* as its pieces
RECURSIVE fmt_from(_, _)
fmt_from(self, i) ==
    IF i > Len(PRELUDES) THEN <<"Alignment(", self.x, ", ", self.y, ")">>
    ELSE IF Alignment_eq(PRELUDES[i][1], self) THEN <<PRELUDES[i][2]>>
    ELSE fmt_from(self, i + 1)

Alignment_fmt(self) == fmt_from(self, 1)

\* ------------------------------------------------------------------ Init
\* The state a paint pass starts in: the tree is built, the layout pass has
\* run (and may have skipped nodes), no context exists yet.
Init ==
    /\ kids \in {KidsOf(p) : p \in ParentMaps}
    /\ \E L \in SUBSET Nodes, s \in Sizes :
          render_data = [n \in Nodes |->
              IF n \in L THEN [DefaultRenderData EXCEPT !.size = s, !.laid_out = TRUE]
              ELSE DefaultRenderData]
    /\ borrow = [n \in Nodes |-> 0]
    /\ ctxs = <<>>
    /\ views = <<>>
    /\ stack = <<>>
    /\ yielded = [n \in Nodes |-> <<>>]
    /\ result = Outcome("init", "ok", 0, <<>>, <<>>)
    /\ ops = 0
    /\ al = NoAl

\* ------------------------------------------------------------------ pieces of the operations
LaidOutCheck_Skipped(n) == TRUE

\* assert!(self.node.borrow().render_data.laid_out, ...)
LaidOutCheck(n) == render_data[n].laid_out

LocalOffsetOf_Swapped(O, c) == OffsetSub(ctxs[c].parent_offset, O)

LocalOffsetOf_Absolute(O, c) == O

\* let local_offset = *offset - self.parent_offset.get();
LocalOffsetOf(O, c) == OffsetSub(O, ctxs[c].parent_offset)

CloneOf_OffsetAsParent(c, O) ==
    [node |-> ctxs[c].node, offset |-> O, parent_offset |-> O,
     owner |-> depth + 1, from |-> ctxs[c].from, writes |-> ctxs[c].writes + 1]

CloneOf_DefaultOffset(c, O) ==
    [node |-> ctxs[c].node, offset |-> ZeroOffset, parent_offset |-> ctxs[c].parent_offset,
     owner |-> depth + 1, from |-> ctxs[c].from, writes |-> ctxs[c].writes + 1]

\* self.clone(), moved into the widget's paint
CloneOf(c, O) ==
    [node |-> ctxs[c].node, offset |-> O, parent_offset |-> ctxs[c].parent_offset,
     owner |-> depth + 1, from |-> ctxs[c].from, writes |-> ctxs[c].writes + 1]

\* the offset cell shared with the contexts derived from c
SetOffset_SharedCell(c, O) ==
    [d \in DOMAIN ctxs |->
        IF d = c THEN [ctxs[d] EXCEPT !.offset = O, !.writes = @ + 1]
        ELSE IF ctxs[d].from = c THEN [ctxs[d] EXCEPT !.parent_offset = O]
        ELSE ctxs[d]]

\* self.offset.set(offset.clone())
SetOffset(c, O) == [ctxs EXCEPT ![c].offset = O, ![c].writes = @ + 1]

WriteLocalOffset_ResetsRest(n, v) ==
    [render_data EXCEPT ![n] = [DefaultRenderData EXCEPT !.local_offset = v]]

\* self.node.borrow_mut().render_data.local_offset = local_offset;
WriteLocalOffset(n, v) == [render_data EXCEPT ![n].local_offset = v]

SizeAccess_Exclusive(n) == CanBorrowMut(n)
ParentDataMutAccess_Shared(n) == CanBorrow(n)

\* which access each operation asks of the node
PaintReadAccess(n) == CanBorrow(n)
PaintWriteAccess(n) == CanBorrowMut(n)
SizeAccess(n) == CanBorrow(n)
ParentDataAccess(n) == CanBorrow(n)
ParentDataMutAccess(n) == CanBorrowMut(n)
SetParentDataAccess(n) == CanBorrowMut(n)

GetChild_Clamped(n, index) ==
    IF kids[n] = <<>> THEN <<>>
    ELSE <<kids[n][IF index < Len(kids[n]) THEN index + 1 ELSE Len(kids[n])]>>

\* self.node.children().get(index): Some(<<child>>) or None (<<>>)
GetChild(n, index) ==
    IF index < Len(kids[n]) THEN <<kids[n][index + 1]>> ELSE <<>>

IterChildren_Reversed(n) == [k \in 1..Len(kids[n]) |-> kids[n][Len(kids[n]) + 1 - k]]

\* self.node.children().iter(): the children in order
IterChildren(n) == kids[n]

Downcast_Unchecked(pd, T) == <<pd[2]>>

\* parent_data.downcast_ref::<T>() / downcast_mut::<T>(): Some(<<value>>) or None (<<>>)
Downcast(pd, T) == IF pd[1] = T THEN <<pd[2]>> ELSE <<>>

\* Box::new(data)
BoxOf(T, v) == <<T, v>>

\* the borrow of the early type check not released
AfterBorrow_CheckKept(n) == [borrow EXCEPT ![n] = @ + 2]

\* the flag of a node after one more Ref / after a RefMut is taken / after a drop
AfterBorrow(n) == [borrow EXCEPT ![n] = @ + 1]
AfterBorrowMut(n) == [borrow EXCEPT ![n] = -1]
AfterDrop(b, v) == [b EXCEPT ![v.node] = IF v.excl THEN 0 ELSE @ - 1]

RECURSIVE DropAll(_, _)
DropAll(b, vs) == IF vs = <<>> THEN b ELSE DropAll(AfterDrop(b, Head(vs)), Tail(vs))

\* ------------------------------------------------------------------ actions
\* the layout pass (outside this core) resolves a node's size and marks it laid out
Layout(n, s) ==
    /\ Step
    /\ depth = 0
    /\ CanBorrowMut(n)
    /\ render_data' = [render_data EXCEPT ![n].size = s, ![n].laid_out = TRUE]
    /\ result' = Outcome("layout", "ok", 0, <<n>>, s)
    /\ UNCHANGED <<kids, borrow, ctxs, views, stack, yielded>>

\* PaintContextOS { node, offset: Cell::default(), parent_offset: Cell::default() }
Fresh(n) ==
    [node |-> n, offset |-> ZeroOffset, parent_offset |-> ZeroOffset,
     owner |-> 0, from |-> 0, writes |-> 0]

\* PaintContextOS::new(node): the pass starts with a context on the root
New ==
    /\ Step
    /\ depth = 0
    /\ FreeIds # {}
    /\ LET id == TakeIds(FreeIds, 1)[1]
       IN /\ ctxs' = Extend(ctxs, <<id>>, <<Fresh(Root)>>)
          /\ result' = Outcome("new", "ok", 0, <<Root>>, <<id>>)
    /\ UNCHANGED <<kids, render_data, borrow, views, stack, yielded>>

\* PaintContextOS::paint(&mut self, piet, offset)
Paint(c, O) ==
    LET n == ctxs[c].node IN
    /\ Step
    /\ c \in Usable
    /\ IF ~PaintReadAccess(n) \/ ~LaidOutCheck(n)
       THEN \* the borrow or the assertion panics before anything is written
            /\ result' = Outcome("paint", "panic", c, O, <<>>)
            /\ UNCHANGED <<render_data, ctxs, stack>>
       ELSE IF ~PaintWriteAccess(n)
       THEN \* self.offset.set(..) has run, borrow_mut() panics
            /\ ctxs' = SetOffset(c, O)
            /\ result' = Outcome("paint", "panic", c, O, <<>>)
            /\ UNCHANGED <<render_data, stack>>
       ELSE /\ FreeIds # {}
            /\ depth < MaxDepth
            /\ LET id == TakeIds(FreeIds, 1)[1]
               IN /\ ctxs' = Extend(SetOffset(c, O), <<id>>,
                                    <<CloneOf(c, O)>>)
                  /\ stack' = Append(stack, [self |-> c, handed |-> id, offset |-> O])
                  /\ result' = Outcome("paint", "ok", c, O, <<id>>)
            /\ render_data' = WriteLocalOffset(n, LocalOffsetOf(O, c))
    /\ UNCHANGED <<kids, borrow, views, yielded>>

\* the widget's paint logic returns: its contexts and views go out of scope
Return ==
    /\ Step
    /\ depth > 0
    /\ LET gone(v) == ctxs[v.ctx].owner = depth
           kept(v) == ctxs[v.ctx].owner # depth
       IN /\ borrow' = DropAll(borrow, SelectSeq(views, gone))
          /\ views' = SelectSeq(views, kept)
    /\ ctxs' = [c \in {d \in DOMAIN ctxs : ctxs[d].owner # depth} |-> ctxs[c]]
    /\ stack' = SubSeq(stack, 1, depth - 1)
    /\ result' = Outcome("return", "ok", stack[depth].self, <<>>, <<>>)
    /\ UNCHANGED <<kids, render_data, yielded>>

\* PaintContextOS::try_child(&self, index)
TryChild(c, index) ==
    LET n == ctxs[c].node
        got == GetChild(n, index) IN
    /\ Step
    /\ c \in Usable
    /\ IF got = <<>>
       THEN /\ result' = Outcome("try_child", "none", c, <<index>>, <<>>)
            /\ UNCHANGED ctxs
       ELSE /\ FreeIds # {}
            /\ LET id == TakeIds(FreeIds, 1)[1]
               IN /\ ctxs' = Extend(ctxs, <<id>>, <<Derived(c, got[1])>>)
                  /\ result' = Outcome("try_child", "ok", c, <<index>>, <<id>>)
    /\ UNCHANGED <<kids, render_data, borrow, views, stack, yielded>>

\* PaintContextOS::child(&mut self, index): try_child(index).expect(..)
Child(c, index) ==
    LET n == ctxs[c].node
        got == GetChild(n, index) IN
    /\ Step
    /\ c \in Usable
    /\ IF got = <<>>
       THEN /\ result' = Outcome("child", "panic", c, <<index>>, <<>>)
            /\ UNCHANGED ctxs
       ELSE /\ FreeIds # {}
            /\ LET id == TakeIds(FreeIds, 1)[1]
               IN /\ ctxs' = Extend(ctxs, <<id>>, <<Derived(c, got[1])>>)
                  /\ result' = Outcome("child", "ok", c, <<index>>, <<id>>)
    /\ UNCHANGED <<kids, render_data, borrow, views, stack, yielded>>

\* PaintContextOS::children(&mut self), run to its end
Children(c) ==
    LET n == ctxs[c].node
        cs == IterChildren(n) IN
    /\ Step
    /\ c \in Usable
    /\ Cardinality(FreeIds) >= Len(cs)
    /\ LET ids == TakeIds(FreeIds, Len(cs))
       IN /\ ctxs' = Extend(ctxs, ids, [k \in DOMAIN cs |-> Derived(c, cs[k])])
          /\ result' = Outcome("children", "ok", c, <<>>, ids)
    /\ yielded' = [yielded EXCEPT ![n] = Append(@, cs)]
    /\ UNCHANGED <<kids, render_data, borrow, views, stack>>

\* PaintContextOS::size(&self)
Size(c) ==
    LET n == ctxs[c].node IN
    /\ Step
    /\ c \in Usable
    /\ IF ~SizeAccess(n)
       THEN result' = Outcome("size", "panic", c, <<>>, <<>>)
       ELSE result' = Outcome("size", "ok", c, <<>>, render_data[n].size)
    /\ UNCHANGED <<kids, render_data, borrow, ctxs, views, stack, yielded>>

\* PaintContextOS::try_parent_data::<T>(&self)
TryParentData(c, T) ==
    LET n == ctxs[c].node
        got == Downcast(render_data[n].parent_data, T) IN
    /\ Step
    /\ c \in Usable
    /\ IF ~ParentDataAccess(n)
       THEN /\ result' = Outcome("try_parent_data", "panic", c, <<T>>, <<>>)
            /\ UNCHANGED <<borrow, views>>
       ELSE IF got = <<>>
       THEN /\ result' = Outcome("try_parent_data", "none", c, <<T>>, <<>>)
            /\ UNCHANGED <<borrow, views>>
       ELSE /\ Len(views) < MaxViews
            /\ borrow' = AfterBorrow(n)
            /\ views' = Append(views, [node |-> n, ctx |-> c, excl |-> FALSE, type |-> T])
            /\ result' = Outcome("try_parent_data", "ok", c, <<T>>, got)
    /\ UNCHANGED <<kids, render_data, ctxs, stack, yielded>>

\* PaintContextOS::try_parent_data_mut::<T>(&self)
TryParentDataMut(c, T) ==
    LET n == ctxs[c].node
        got == Downcast(render_data[n].parent_data, T) IN
    /\ Step
    /\ c \in Usable
    /\ IF ~ParentDataMutAccess(n)
       THEN /\ result' = Outcome("try_parent_data_mut", "panic", c, <<T>>, <<>>)
            /\ UNCHANGED <<borrow, views>>
       ELSE IF got = <<>>
       THEN /\ result' = Outcome("try_parent_data_mut", "none", c, <<T>>, <<>>)
            /\ UNCHANGED <<borrow, views>>
       ELSE /\ Len(views) < MaxViews
            /\ borrow' = AfterBorrowMut(n)
            /\ views' = Append(views, [node |-> n, ctx |-> c, excl |-> TRUE, type |-> T])
            /\ result' = Outcome("try_parent_data_mut", "ok", c, <<T>>, got)
    /\ UNCHANGED <<kids, render_data, ctxs, stack, yielded>>

\* PaintContextOS::set_parent_data::<T>(&self, data)
SetParentData(c, T, v) ==
    LET n == ctxs[c].node IN
    /\ Step
    /\ c \in Usable
    /\ IF ~SetParentDataAccess(n)
       THEN /\ result' = Outcome("set_parent_data", "panic", c, <<T, v>>, <<>>)
            /\ UNCHANGED render_data
       ELSE /\ render_data' = [render_data EXCEPT ![n].parent_data = BoxOf(T, v)]
            /\ result' = Outcome("set_parent_data", "ok", c, <<T, v>>, <<>>)
    /\ UNCHANGED <<kids, borrow, ctxs, views, stack, yielded>>

\* a Ref / RefMut held by the running code is dropped
DropView(i) ==
    /\ Step
    /\ i \in DOMAIN views
    /\ ctxs[views[i].ctx].owner = depth
    /\ borrow' = AfterDrop(borrow, views[i])
    /\ views' = SubSeq(views, 1, i - 1) \o SubSeq(views, i + 1, Len(views))
    /\ result' = Outcome("drop_view", "ok", views[i].ctx, <<>>, <<>>)
    /\ UNCHANGED <<kids, render_data, ctxs, stack, yielded>>

Next ==
    \/ \E n \in Nodes, s \in Sizes : Layout(n, s)
    \/ New
    \/ \E c \in DOMAIN ctxs, O \in Offsets : Paint(c, O)
    \/ Return
    \/ \E c \in DOMAIN ctxs, i \in 0..(NumNodes - 1) : TryChild(c, i)
    \/ \E c \in DOMAIN ctxs, i \in 0..(NumNodes - 1) : Child(c, i)
    \/ \E c \in DOMAIN ctxs : Children(c)
    \/ \E c \in DOMAIN ctxs : Size(c)
    \/ \E c \in DOMAIN ctxs, T \in Types : TryParentData(c, T)
    \/ \E c \in DOMAIN ctxs, T \in Types : TryParentDataMut(c, T)
    \/ \E c \in DOMAIN ctxs, T \in Types, v \in Vals : SetParentData(c, T, v)
    \/ \E i \in DOMAIN views : DropView(i)

Spec == Init /\ [][Next]_vars

\* ------------------------------------------------------------------ applying the alignment functions
AlignVals == {Norm(k, 2) : k \in (-MaxAlign)..MaxAlign}
Dims == {F(d) : d \in 0..MaxDim}
TextDirections == {"Ltr", "Rtl"}

AlignInit ==
    /\ kids = [n \in Nodes |-> <<>>]
    /\ render_data = [n \in Nodes |-> DefaultRenderData]
    /\ borrow = [n \in Nodes |-> 0]
    /\ ctxs = <<>>
    /\ views = <<>>
    /\ stack = <<>>
    /\ yielded = [n \in Nodes |-> <<>>]
    /\ result = Outcome("init", "ok", 0, <<>>, <<>>)
    /\ ops = 0
    /\ al = NoAl

AlignFrame == UNCHANGED <<kids, render_data, borrow, ctxs, views, stack, yielded, result, ops>>

Along(a, size) ==
    /\ al' = [op |-> "along", a |-> a, arg |-> size, out |-> along(a, size)]
    /\ AlignFrame

ResolveAlignment(a, dir) ==
    /\ al' = [op |-> "resolve", a |-> a, arg |-> dir, out |-> Alignment_resolve(a, dir)]
    /\ AlignFrame

ResolveDirectional(a, dir) ==
    /\ al' = [op |-> "resolve_directional", a |-> a, arg |-> dir,
              out |-> AlignmentDirectional_resolve(a, dir)]
    /\ AlignFrame

\* operands of the arithmetic operators: every value of the format in range
FloatVals ==
    {F(0)} \cup
    UNION {{Norm(m, Pow2(MantBits - 1 - e)), Norm(-m, Pow2(MantBits - 1 - e))} :
              m \in Pow2(MantBits - 1)..(Pow2(MantBits) - 1), e \in 0..MaxExp}
UnitVals == {F(-1), F(0), F(1)}
\* inputs of Display: the alignment values and two that are not halves
DisplayVals == AlignVals \cup {Norm(3, 10), Norm(7, 10)}

Apply(op, a, arg, out) ==
    /\ al' = [op |-> op, a |-> a, arg |-> arg, out |-> out]
    /\ AlignFrame

AddAlignment(a, b) == Apply("add", a, b, Alignment_add(a, b))
SubAlignment(a, b) == Apply("sub", a, b, Alignment_sub(a, b))
NegAlignment(a) == Apply("neg", a, <<>>, Alignment_neg(a))
AddDirectional(a, b) == Apply("add_directional", a, b, AlignmentDirectional_add(a, b))
SubDirectional(a, b) == Apply("sub_directional", a, b, AlignmentDirectional_sub(a, b))
NegDirectional(a) == Apply("neg_directional", a, <<>>, AlignmentDirectional_neg(a))
Display(a) == Apply("display", a, <<>>, Alignment_fmt(a))

\* No operator reads the previous application, so the applications made from
\* the initial state already reach every state; AlignNext makes them there.
ArithNext ==
    \/ \E x1 \in FloatVals, x2 \in FloatVals, y1 \in UnitVals, y2 \in UnitVals :
          \/ AddAlignment([x |-> x1, y |-> y1], [x |-> x2, y |-> y2])
          \/ SubAlignment([x |-> x1, y |-> y1], [x |-> x2, y |-> y2])
          \/ AddDirectional(Directional(x1, y1), Directional(x2, y2))
          \/ SubDirectional(Directional(x1, y1), Directional(x2, y2))
    \/ \E x \in FloatVals, y \in FloatVals :
          \/ NegAlignment([x |-> x, y |-> y])
          \/ NegDirectional(Directional(x, y))
    \/ \E x \in DisplayVals, y \in DisplayVals : Display([x |-> x, y |-> y])

AlignNext ==
    \/ al = NoAl /\ ArithNext
    \/ al = NoAl /\ \E x \in AlignVals, y \in AlignVals, w \in Dims, h \in Dims :
          Along([x |-> x, y |-> y], [width |-> w, height |-> h])
    \/ al = NoAl /\ \E x \in AlignVals, y \in AlignVals, dir \in TextDirections :
          ResolveAlignment([x |-> x, y |-> y], dir)
    \/ al = NoAl /\ \E start \in AlignVals, y \in AlignVals, dir \in TextDirections :
          ResolveDirectional(Directional(start, y), dir)

AlignSpec == AlignInit /\ [][AlignNext]_vars

\* ------------------------------------------------------------------ reading a step
\* the step is one run of operation op
Did(op) == ops' # ops /\ result'.op = op
\* the held views on node n
ViewsOn(n) == {i \in DOMAIN views : views[i].node = n}
SharedOn(n) == {i \in ViewsOn(n) : ~views[i].excl}
ExclOn(n) == {i \in ViewsOn(n) : views[i].excl}

\* ------------------------------------------------------------------ C1
PaintChecksLayout ==
    \A c \in DOMAIN ctxs :
        (Did("paint") /\ result'.ctx = c) =>
            LET n == ctxs[c].node IN
            /\ ~render_data[n].laid_out =>
                  /\ result'.status = "panic"
                  /\ stack' = stack
                  /\ render_data' = render_data
            /\ (render_data[n].laid_out /\ ViewsOn(n) = {}) =>
                  /\ result'.status = "ok"
                  /\ render_data'[n].local_offset =
                         OffsetSub(result'.arg, ctxs[c].parent_offset)
                  /\ Len(stack') = Len(stack) + 1
            /\ Len(stack') > Len(stack) => render_data[n].laid_out

RunningWidgetsLaidOut ==
    \A i \in DOMAIN stack : render_data[ctxs[stack[i].self].node].laid_out

\* C1: paint on a node whose laid_out flag is false panics and changes nothing;
\* paint on a laid-out node with no view outstanding succeeds, writes
\* local_offset and invokes the widget; the widget's paint logic is never
\* invoked for a node that is not laid out.
C1_PaintRequiresLayout == [][PaintChecksLayout]_vars /\ []RunningWidgetsLaidOut

\* a widget is painting, and the paint of one of its children, which was not
\* laid out, has just panicked
C1_Witness ==
    /\ depth = 1
    /\ result.op = "paint"
    /\ result.status = "panic"
    /\ result.ctx \in DOMAIN ctxs
    /\ ~render_data[ctxs[result.ctx].node].laid_out
    /\ render_data[ctxs[stack[1].self].node].local_offset # ZeroOffset

\* ------------------------------------------------------------------ C2
\* C2: when a context p has offset O and c was derived from it with
\* parent_offset O, a successful paint(_, O2) of c leaves the node of c with
\* local_offset = O2 - O, whatever it held before.
C2_LocalOffsetIsDifference ==
    [][\A c \in DOMAIN ctxs :
          (/\ Did("paint") /\ result'.ctx = c /\ result'.status = "ok"
           /\ ctxs[c].from \in DOMAIN ctxs
           /\ ctxs[c].parent_offset = ctxs[ctxs[c].from].offset) =>
              render_data'[ctxs[c].node].local_offset =
                  <<result'.arg[1] - ctxs[ctxs[c].from].offset[1],
                    result'.arg[2] - ctxs[ctxs[c].from].offset[2]>>]_vars

\* a derived child was painted at O2 under a parent painted at O, with O and
\* O2 - O both non-zero
C2_Witness ==
    /\ result.op = "paint"
    /\ result.status = "ok"
    /\ result.ctx \in DOMAIN ctxs
    /\ LET c == result.ctx IN
       /\ ctxs[c].from \in DOMAIN ctxs
       /\ ctxs[ctxs[c].from].offset # ZeroOffset
       /\ ctxs[c].parent_offset = ctxs[ctxs[c].from].offset
       /\ render_data[ctxs[c].node].local_offset # ZeroOffset
       /\ render_data[ctxs[c].node].local_offset # result.arg

\* ------------------------------------------------------------------ C3
\* the context of id `id` is new in this step, bound to `node`, with the
\* offset of c as parent_offset and the default offset
IsDerivedNow(id, c, node) ==
    /\ id \notin DOMAIN ctxs
    /\ id \in DOMAIN ctxs'
    /\ ctxs'[id].node = node
    /\ ctxs'[id].parent_offset = ctxs[c].offset
    /\ ctxs[c].writes = 0 => ctxs'[id].parent_offset = <<0, 0>>
    /\ ctxs'[id].offset = <<0, 0>>
    /\ ctxs'[c] = ctxs[c]

\* C3: child(i), try_child(i) and the i-th element of children() are new
\* contexts bound to the i-th child, with parent_offset = the deriving
\* context's offset at that moment and offset = (0, 0).
C3_DerivedContext ==
    [][\A c \in DOMAIN ctxs :
          LET n == ctxs[c].node IN
          /\ ((Did("child") \/ Did("try_child")) /\ result'.ctx = c
                 /\ result'.arg[1] < Len(kids[n])) =>
                /\ Len(result'.val) = 1
                /\ IsDerivedNow(result'.val[1], c, kids[n][result'.arg[1] + 1])
          /\ (Did("children") /\ result'.ctx = c) =>
                \A i \in 0..(Len(kids[n]) - 1) :
                    /\ i + 1 \in DOMAIN result'.val
                    /\ IsDerivedNow(result'.val[i + 1], c, kids[n][i + 1])]_vars

\* children() has just yielded two contexts under a painted context whose
\* offset is not zero
C3_Witness ==
    /\ result.op = "children"
    /\ Len(result.val) = 2
    /\ ctxs[result.ctx].offset # ZeroOffset
    /\ \A k \in 1..2 : ctxs[result.val[k]].parent_offset = ctxs[result.ctx].offset
    /\ ctxs[result.val[1]].node # ctxs[result.val[2]].node

\* ------------------------------------------------------------------ C4
\* C4: for an index >= the number of children, child panics and try_child
\* returns nothing; for an index in range neither fails; in no case is any
\* RenderData or the calling context changed.
C4_ChildIndexRange ==
    [][\A c \in DOMAIN ctxs :
          LET n == ctxs[c].node IN
          /\ (Did("child") /\ result'.ctx = c) =>
                /\ result'.arg[1] >= Len(kids[n]) => result'.status = "panic"
                /\ result'.arg[1] < Len(kids[n]) => result'.status = "ok"
                /\ render_data' = render_data
                /\ ctxs'[c] = ctxs[c]
                /\ result'.status = "panic" => ctxs' = ctxs
          /\ (Did("try_child") /\ result'.ctx = c) =>
                /\ result'.arg[1] >= Len(kids[n]) =>
                      (result'.status = "none" /\ result'.val = <<>>)
                /\ result'.arg[1] < Len(kids[n]) => result'.status = "ok"
                /\ render_data' = render_data
                /\ ctxs'[c] = ctxs[c]
                /\ result'.status = "none" => ctxs' = ctxs]_vars

\* child(n) has just panicked on a node with n >= 1 children
C4_Witness ==
    /\ result.op = "child"
    /\ result.status = "panic"
    /\ Len(kids[ctxs[result.ctx].node]) >= 1
    /\ result.arg[1] = Len(kids[ctxs[result.ctx].node])

\* ------------------------------------------------------------------ C5
\* C5: children() yields one context per child, the k-th bound to the k-th
\* child, and every run on a node yields the same bound nodes as the runs
\* before it, whatever paint, size and parent-data operations came between.
C5_ChildrenInOrder ==
    [][/\ kids' = kids
       /\ \A c \in DOMAIN ctxs :
            (Did("children") /\ result'.ctx = c) =>
                LET n == ctxs[c].node IN
                /\ Len(result'.val) = Len(kids[n])
                /\ \A k \in 1..Len(kids[n]) :
                      /\ result'.val[k] \in DOMAIN ctxs' \ DOMAIN ctxs
                      /\ ctxs'[result'.val[k]].node = kids[n][k]
                /\ \A j \in DOMAIN yielded[n] :
                      yielded[n][j] = [k \in 1..Len(result'.val) |->
                                          ctxs'[result'.val[k]].node]]_vars

\* children() ran twice on a node with two children, with a paint between
C5_Witness ==
    /\ result.op = "children"
    /\ \E n \in Nodes :
          /\ Len(kids[n]) = 2
          /\ Len(yielded[n]) = 2
    /\ \E m \in Nodes : render_data[m].local_offset # ZeroOffset

\* ------------------------------------------------------------------ C6
IsLookup == Did("try_parent_data") \/ Did("try_parent_data_mut")

\* C6: set_parent_data::<T>(v) replaces the slot whatever it held, and a
\* lookup that follows it immediately on the same node returns v for T and
\* nothing, without panic, for any other type.
C6_SetThenGet ==
    [][/\ \A c \in DOMAIN ctxs :
            (Did("set_parent_data") /\ result'.ctx = c /\ result'.status = "ok") =>
                render_data'[ctxs[c].node].parent_data = result'.arg
       /\ \A c \in DOMAIN ctxs :
            (/\ result.op = "set_parent_data" /\ result.status = "ok"
             /\ IsLookup /\ result'.ctx = c
             /\ ctxs[c].node = ctxs[result.ctx].node) =>
                /\ result'.arg[1] = result.arg[1] =>
                      (result'.status = "ok" /\ result'.val = <<result.arg[2]>>)
                /\ result'.arg[1] # result.arg[1] =>
                      (result'.status = "none" /\ result'.val = <<>>)]_vars

\* a value was stored over a value of another type and has just been read back
C6_Witness ==
    /\ result.op = "try_parent_data_mut"
    /\ result.status = "ok"
    /\ result.arg = <<NumTypes>>
    /\ result.val = <<MaxVal>>
    /\ \E i \in DOMAIN views : views[i].excl /\ views[i].ctx = result.ctx

\* ------------------------------------------------------------------ C7
OneWriterOrReaders ==
    \A n \in Nodes :
        \/ ExclOn(n) = {}
        \/ Cardinality(ExclOn(n)) = 1 /\ SharedOn(n) = {}

AccessConflictsPanic ==
    \A c \in DOMAIN ctxs :
        LET n == ctxs[c].node IN
        /\ ((Did("try_parent_data_mut") \/ Did("set_parent_data") \/ Did("paint"))
               /\ result'.ctx = c /\ ViewsOn(n) # {}) =>
              /\ result'.status = "panic"
              /\ render_data' = render_data
              /\ views' = views
        /\ ((Did("try_parent_data") \/ Did("size")) /\ result'.ctx = c) =>
              /\ ExclOn(n) # {} =>
                    /\ result'.status = "panic"
                    /\ render_data' = render_data
                    /\ views' = views
              /\ ExclOn(n) = {} => result'.status # "panic"

\* C7: on every node either no exclusive view is held, or exactly one and no
\* shared view; parent_data_mut, set_parent_data and paint panic while any
\* view on the node is held, parent_data and size panic while an exclusive
\* view is held and succeed while only shared views are, and a panic leaves
\* every RenderData as it was.
C7_SharedXorExclusive == []OneWriterOrReaders /\ [][AccessConflictsPanic]_vars

\* parent_data_mut has just panicked because another context bound to the same
\* node holds a shared view
C7_Witness ==
    /\ result.op = "try_parent_data_mut"
    /\ result.status = "panic"
    /\ \E i \in DOMAIN views :
          /\ ~views[i].excl
          /\ views[i].ctx # result.ctx
          /\ views[i].node = ctxs[result.ctx].node

\* ------------------------------------------------------------------ C8
\* C8 as stated: size() succeeds in every state after layout.
C8_SizeAlwaysValid ==
    (/\ result.op = "size"
     /\ result.ctx \in DOMAIN ctxs
     /\ render_data[ctxs[result.ctx].node].laid_out) =>
        /\ result.status = "ok"
        /\ result.val = render_data[ctxs[result.ctx].node].size

\* C8 amended: size() returns the node's size in every state in which no
\* exclusive view on the node is held (before, during and after a paint, with
\* or without shared views) and panics while one is held; nothing but layout
\* changes the size.
C8_SizeValidUnlessExclusive ==
    [][/\ \A c \in DOMAIN ctxs :
            (Did("size") /\ result'.ctx = c) =>
                LET n == ctxs[c].node IN
                /\ ExclOn(n) = {} =>
                      (result'.status = "ok" /\ result'.val = render_data[n].size)
                /\ ExclOn(n) # {} => result'.status = "panic"
                /\ render_data' = render_data
       /\ ~Did("layout") =>
            \A n \in Nodes : render_data'[n].size = render_data[n].size]_vars

\* size() has just succeeded inside a widget's paint while a shared view on
\* the node is held
C8_Witness ==
    /\ result.op = "size"
    /\ result.status = "ok"
    /\ depth >= 1
    /\ result.val # <<0, 0>>
    /\ SharedOn(ctxs[result.ctx].node) # {}

\* ------------------------------------------------------------------ C9
\* where a coordinate of -1, 0 or 1 lands on an extent
GridPoint(coord, extent) ==
    IF coord = F(-1) THEN F(0)
    ELSE IF coord = F(0) THEN FDiv(extent, F(2))
    ELSE extent

Presets ==
    {TOP_LEFT, TOP_CENTER, TOP_RIGHT, CENTER_LEFT, CENTER, CENTER_RIGHT,
     BOTTOM_LEFT, BOTTOM_CENTER, BOTTOM_RIGHT}

\* C9: along(Size{w, h}) of Alignment{x, y} is (w/2 + x*w/2, h/2 + y*h/2);
\* CENTER gives (w/2, h/2), TOP_LEFT (0, 0), BOTTOM_RIGHT (w, h), and each of
\* the nine presets its point of the grid {0, w/2, w} x {0, h/2, h}.
C9_Along ==
    al.op = "along" =>
        LET w == al.arg.width
            h == al.arg.height
        IN /\ al.out.x = FAdd(FDiv(w, F(2)), FDiv(FMul(al.a.x, w), F(2)))
           /\ al.out.y = FAdd(FDiv(h, F(2)), FDiv(FMul(al.a.y, h), F(2)))
           /\ al.a = CENTER => al.out = [x |-> FDiv(w, F(2)), y |-> FDiv(h, F(2))]
           /\ al.a = TOP_LEFT => al.out = [x |-> F(0), y |-> F(0)]
           /\ al.a = BOTTOM_RIGHT => al.out = [x |-> w, y |-> h]
           /\ al.a \in Presets =>
                 al.out = [x |-> GridPoint(al.a.x, w), y |-> GridPoint(al.a.y, h)]

\* TOP_RIGHT along a 3 x 2 size: (3, 0)
C9_Witness ==
    /\ al.op = "along"
    /\ al.a = TOP_RIGHT
    /\ al.arg = [width |-> F(3), height |-> F(2)]
    /\ al.out = [x |-> F(3), y |-> F(0)]

\* ------------------------------------------------------------------ C10
\* C10: AlignmentDirectional{start, y} resolves to Alignment{start, y} under
\* Ltr and to Alignment{-start, y} under Rtl, y untouched; CENTER_START gives
\* CENTER_LEFT under Ltr and CENTER_RIGHT under Rtl; an Alignment resolves to
\* itself under either direction.
C10_Resolve ==
    /\ al.op = "resolve_directional" =>
          /\ al.arg = "Ltr" => al.out = [x |-> al.a.start, y |-> al.a.y]
          /\ al.arg = "Rtl" => al.out = [x |-> FSub(F(0), al.a.start), y |-> al.a.y]
          /\ al.out.y = al.a.y
          /\ al.a = CENTER_START =>
                al.out = (IF al.arg = "Ltr" THEN [x |-> F(-1), y |-> F(0)]
                          ELSE [x |-> F(1), y |-> F(0)])
    /\ al.op = "resolve" => al.out = al.a

\* CENTER_START resolved under Rtl: Alignment{1, 0}
C10_Witness ==
    /\ al.op = "resolve_directional"
    /\ al.a = CENTER_START
    /\ al.arg = "Rtl"
    /\ al.out = CENTER_RIGHT

\* ------------------------------------------------------------------ C11
IsAdd == al.op \in {"add", "add_directional"}
IsSub == al.op \in {"sub", "sub_directional"}
IsNeg == al.op \in {"neg", "neg_directional"}
\* the operators of the type the recorded application belongs to
AddOf(a, b) == IF al.op \in {"add", "sub", "neg"} THEN Alignment_add(a, b)
               ELSE AlignmentDirectional_add(a, b)
SubOf(a, b) == IF al.op \in {"add", "sub", "neg"} THEN Alignment_sub(a, b)
               ELSE AlignmentDirectional_sub(a, b)
NegOf(a) == IF al.op \in {"add", "sub", "neg"} THEN Alignment_neg(a)
            ELSE AlignmentDirectional_neg(a)
ZeroOf == IF al.op \in {"add", "sub", "neg"} THEN [x |-> F(0), y |-> F(0)]
          ELSE [start |-> F(0), y |-> F(0)]
\* the sum without rounding
ExactSum(a, b) ==
    IF al.op = "add" THEN [x |-> FAdd(a.x, b.x), y |-> FAdd(a.y, b.y)]
    ELSE [start |-> FAdd(a.start, b.start), y |-> FAdd(a.y, b.y)]

\* C11 as stated: a + (-a) = 0, (a + b) - b = a, a + b = b + a and
\* a - b = a + (-b) for all a and b, for both types.
C11_GroupLaws ==
    /\ IsAdd => /\ SubOf(al.out, al.arg) = al.a
                /\ al.out = AddOf(al.arg, al.a)
    /\ IsSub => al.out = AddOf(al.a, NegOf(al.arg))
    /\ IsNeg => AddOf(al.a, al.out) = ZeroOf

\* C11 amended: a + (-a) = 0, a + b = b + a and a - b = a + (-b) for all
\* finite a and b, and (a + b) - b = a whenever a + b is computed without
\* rounding, for both types.
C11_GroupLawsUpToRounding ==
    /\ IsAdd => /\ al.out = ExactSum(al.a, al.arg) => SubOf(al.out, al.arg) = al.a
                /\ al.out = AddOf(al.arg, al.a)
    /\ IsSub => al.out = AddOf(al.a, NegOf(al.arg))
    /\ IsNeg => AddOf(al.a, al.out) = ZeroOf

\* 5/4 + 5/4 = 5/2 (exact), with y: 1 + (-1) = 0
C11_Witness ==
    /\ al.op = "add"
    /\ al.a = [x |-> Norm(5, 4), y |-> F(1)]
    /\ al.arg = [x |-> Norm(5, 4), y |-> F(-1)]
    /\ al.out = [x |-> Norm(5, 2), y |-> F(0)]

\* ------------------------------------------------------------------ C12
CanonicalName(a) ==
    CASE a = [x |-> F(-1), y |-> F(-1)] -> "Alignment::TOP_LEFT"
      [] a = [x |-> F(0), y |-> F(-1)] -> "Alignment::TOP_CENTER"
      [] a = [x |-> F(1), y |-> F(-1)] -> "Alignment::TOP_RIGHT"
      [] a = [x |-> F(-1), y |-> F(0)] -> "Alignment::CENTER_LEFT"
      [] a = [x |-> F(0), y |-> F(0)] -> "Alignment::CENTER"
      [] a = [x |-> F(1), y |-> F(0)] -> "Alignment::CENTER_RIGHT"
      [] a = [x |-> F(-1), y |-> F(1)] -> "Alignment::BOTTOM_LEFT"
      [] a = [x |-> F(0), y |-> F(1)] -> "Alignment::BOTTOM_CENTER"
      [] a = [x |-> F(1), y |-> F(1)] -> "Alignment::BOTTOM_RIGHT"
      [] OTHER -> "none"

\* C12: Display of an Alignment equal to a preset writes that preset's own
\* name, no two presets share a name, and Display of any other value writes
\* Alignment(x, y) with its coordinates.
C12_Display ==
    /\ al.op = "display" =>
          /\ al.a \in Presets => al.out = <<CanonicalName(al.a)>>
          /\ al.a \notin Presets => al.out = <<"Alignment(", al.a.x, ", ", al.a.y, ")">>
    /\ \A i, j \in DOMAIN PRELUDES :
          /\ PRELUDES[i][2] = CanonicalName(PRELUDES[i][1])
          /\ i # j => (PRELUDES[i][1] # PRELUDES[j][1] /\ PRELUDES[i][2] # PRELUDES[j][2])

\* Alignment{0.3, 0.7} was displayed as raw coordinates
C12_Witness ==
    /\ al.op = "display"
    /\ al.a = [x |-> Norm(3, 10), y |-> Norm(7, 10)]
    /\ al.out = <<"Alignment(", Norm(3, 10), ", ", Norm(7, 10), ")">>

\* ------------------------------------------------------------------ C13
\* the running paints down to frame k follow the discipline of a depth-first
\* pass: the outermost paints a context made by new (zero parent_offset), each
\* further one paints a context derived from the context handed to the
\* enclosing widget, and no widget has painted its handed context again
Disciplined(k) ==
    \A j \in 1..k :
        /\ j = 1 => ctxs[stack[j].self].from = 0
        /\ j > 1 => ctxs[stack[j].self].from = stack[j - 1].handed
        /\ ctxs[stack[j].handed].writes = ctxs[stack[j].self].writes

\* the node painted by frame j, and the sum of local_offset from the root down to it
FrameNode(j) == ctxs[stack[j].self].node
RECURSIVE PathSum(_)
PathSum(k) ==
    IF k = 0 THEN ZeroOffset
    ELSE LET l == render_data[FrameNode(k)].local_offset
             r == PathSum(k - 1)
         IN <<r[1] + l[1], r[2] + l[2]>>

PassOffsetsCompose ==
    \A k \in 1..depth :
        Disciplined(k) =>
            /\ render_data[FrameNode(k)].local_offset =
                   OffsetSub(stack[k].offset,
                             IF k = 1 THEN ZeroOffset ELSE stack[k - 1].offset)
            /\ PathSum(k) = stack[k].offset

\* local_offset of a node changes only when a paint of that node succeeds
LocalOffsetKept ==
    \A n \in Nodes :
        render_data'[n].local_offset # render_data[n].local_offset =>
            /\ Did("paint")
            /\ result'.status = "ok"
            /\ ctxs[result'.ctx].node = n

\* C13: in a depth-first pass that starts at a root context with zero
\* parent_offset and paints children through contexts derived from the handed
\* context, every painted node's local_offset is its absolute offset minus
\* its parent's absolute offset, the local_offset along the path from the
\* root sum to the node's absolute offset, and the values stay until the node
\* is painted again.
C13_OffsetsCompose == []PassOffsetsCompose /\ [][LocalOffsetKept]_vars

\* root painted at a non-zero offset, its child painted inside at another one
C13_Witness ==
    /\ depth = 2
    /\ Disciplined(2)
    /\ stack[1].offset # ZeroOffset
    /\ stack[2].offset # stack[1].offset
    /\ render_data[FrameNode(2)].local_offset # ZeroOffset

\* ------------------------------------------------------------------ C14
\* the step is a paint of c that reached the widget
PaintInvoked(c) == Did("paint") /\ result'.ctx = c /\ result'.status = "ok"

WidgetInvokedOnce ==
    \A c \in DOMAIN ctxs :
        LET n == ctxs[c].node
            O == result'.arg
            h == result'.val[1] IN
        /\ (Did("paint") /\ result'.ctx = c /\ render_data[n].laid_out /\ borrow[n] = 0
               /\ FreeIds # {} /\ depth < MaxDepth) => result'.status = "ok"
        /\ (Did("paint") /\ result'.ctx = c /\ result'.status # "ok") => stack' = stack
        /\ PaintInvoked(c) =>
              /\ stack' = Append(stack, [self |-> c, handed |-> h, offset |-> O])
              /\ ctxs'[c].offset = O
              /\ render_data'[n].local_offset = OffsetSub(O, ctxs[c].parent_offset)
              /\ h \notin DOMAIN ctxs
              /\ ctxs'[h].node = n
              /\ ctxs'[h].offset = O
              /\ ctxs'[h].parent_offset = ctxs[c].parent_offset
              /\ ctxs'[h].owner = Len(stack')

\* contexts the widget derives from the context it was handed
HandedChildrenUnderO ==
    (/\ depth > 0
     /\ Did("child") \/ Did("try_child") \/ Did("children")
     /\ result'.ctx = stack[depth].handed
     /\ ctxs[stack[depth].handed].writes = ctxs[stack[depth].self].writes) =>
        \A k \in DOMAIN result'.val :
            ctxs'[result'.val[k]].parent_offset = stack[depth].offset

C15_ParentOffsetImmutable ==
    [][\A c \in DOMAIN ctxs \cap DOMAIN ctxs' :
          ctxs'[c].parent_offset = ctxs[c].parent_offset]_vars

\* the context a child was derived from has been painted again at an offset
\* that is not the child's parent_offset
C15_Witness ==
    \E d \in DOMAIN ctxs :
        /\ ctxs[d].from \in DOMAIN ctxs
        /\ ctxs[d].node # ctxs[ctxs[d].from].node
        /\ ctxs[ctxs[d].from].writes >= 2
        /\ ctxs[d].parent_offset # ZeroOffset
        /\ ctxs[d].parent_offset # ctxs[ctxs[d].from].offset
        /\ result.op = "paint"
        /\ result.status = "ok"
        /\ result.ctx = ctxs[d].from

\* ------------------------------------------------------------------ C16
\* how often self.offset.set ran on the context instance c: a clone starts
\* with the count of the context it was cloned from, which cannot be painted
\* while the clone exists
SetCount(c) ==
    IF \E j \in DOMAIN stack : stack[j].handed = c
    THEN LET j == CHOOSE i \in DOMAIN stack : stack[i].handed = c
         IN ctxs[c].writes - ctxs[stack[j].self].writes
    ELSE ctxs[c].writes

\* C16: a context's offset is written only by paint, and no context instance
\* has its offset written more than once.
C16_OffsetSetOnce ==
    /\ \A c \in DOMAIN ctxs : SetCount(c) <= 1
    /\ \A c \in DOMAIN ctxs : SetCount(c) = 0 => ctxs[c].offset \in
           {ZeroOffset} \cup {stack[j].offset : j \in {i \in DOMAIN stack : stack[i].handed = c}}

\* ------------------------------------------------------------------ C17
\* local_offset of the node of c is offset - parent_offset of c
Fits(rd, cs, c) ==
    rd[cs[c].node].local_offset = OffsetSub(cs[c].offset, cs[c].parent_offset)

\* C17 as stated: in every state, every context on which paint has been
\* invoked has local_offset = offset - parent_offset, also when several
\* contexts of one node were painted.
C17_NeverStale ==
    \A c \in DOMAIN ctxs : SetCount(c) > 0 => Fits(render_data, ctxs, c)

\* C17 amended: after every paint that reaches its write, local_offset of the
\* node is offset - parent_offset of the painted context and of the clone
\* handed to the widget; the other contexts of the node are left as they
\* are, so one painted earlier satisfies the equation only if its offset -
\* parent_offset is the same.
C17_FreshAfterPaint ==
    [][\A c \in DOMAIN ctxs :
          PaintInvoked(c) =>
              /\ Fits(render_data', ctxs', c)
              /\ Fits(render_data', ctxs', result'.val[1])
              /\ \A d \in DOMAIN ctxs \ {c} :
                    /\ ctxs'[d] = ctxs[d]
                    /\ ctxs[d].node = ctxs[c].node =>
                          (Fits(render_data', ctxs', d) <=>
                              OffsetSub(ctxs[d].offset, ctxs[d].parent_offset)
                                = OffsetSub(result'.arg, ctxs[c].parent_offset))]_vars

\* two contexts of one node have been painted; local_offset follows the one
\* painted last and no longer the other
C17_Witness ==
    /\ result.op = "paint"
    /\ result.status = "ok"
    /\ Fits(render_data, ctxs, result.ctx)
    /\ render_data[ctxs[result.ctx].node].local_offset # ZeroOffset
    /\ \E d \in DOMAIN ctxs :
          /\ d # result.ctx
          /\ d # result.val[1]
          /\ ctxs[d].node = ctxs[result.ctx].node
          /\ SetCount(d) > 0
          /\ ~Fits(render_data, ctxs, d)

\* ------------------------------------------------------------------ C18
\* C18: paint changes only the calling context's offset and the bound node's
\* local_offset (and hands the widget a clone): the node's size, laid_out and
\* parent_data, the context's parent_offset and node, the child lists, the
\* other contexts, the RenderData of the other nodes and the views stay.
C18_PaintFrame ==
    [][\A c \in DOMAIN ctxs :
          (Did("paint") /\ result'.ctx = c) =>
              LET n == ctxs[c].node IN
              /\ render_data'[n].size = render_data[n].size
              /\ render_data'[n].laid_out = render_data[n].laid_out
              /\ render_data'[n].parent_data = render_data[n].parent_data
              /\ \A m \in Nodes \ {n} : render_data'[m] = render_data[m]
              /\ kids' = kids
              /\ ctxs'[c].parent_offset = ctxs[c].parent_offset
              /\ ctxs'[c].node = n
              /\ \A d \in DOMAIN ctxs \ {c} : ctxs'[d] = ctxs[d]
              /\ borrow' = borrow
              /\ views' = views]_vars

\* a node with a size, parent data and laid out has just been painted at a
\* non-zero local offset, while another node holds a local_offset of its own
C18_Witness ==
    /\ result.op = "paint"
    /\ result.status = "ok"
    /\ LET n == ctxs[result.ctx].node IN
       /\ render_data[n].size # <<0, 0>>
       /\ render_data[n].parent_data # <<UnitType, 0>>
       /\ render_data[n].local_offset # ZeroOffset
       /\ \E m \in Nodes \ {n} : render_data[m].local_offset # ZeroOffset

\* ------------------------------------------------------------------ C19
\* C19: paint on a node that is not laid out fails and changes nothing: the
\* context keeps its offset, the node its local_offset, no widget is invoked
\* and the pass is over.
C19_PaintFailsClean ==
    [][\A c \in DOMAIN ctxs :
          (Did("paint") /\ result'.ctx = c /\ ~render_data[ctxs[c].node].laid_out) =>
              /\ result'.status = "panic"
              /\ ctxs' = ctxs
              /\ render_data' = render_data
              /\ stack' = stack
              /\ <<kids', borrow', views', yielded'>> = <<kids, borrow, views, yielded>>]_vars
    /\ [](halted => ~ENABLED Next)

\* the paint, at a non-zero offset, of a child context with a non-zero
\* parent_offset has failed on its node not being laid out
C19_Witness ==
    /\ result.op = "paint"
    /\ result.status = "panic"
    /\ result.arg # ZeroOffset
    /\ result.ctx \in DOMAIN ctxs
    /\ ~render_data[ctxs[result.ctx].node].laid_out
    /\ ctxs[result.ctx].offset = ZeroOffset
    /\ ctxs[result.ctx].parent_offset # ZeroOffset
    /\ render_data[ctxs[result.ctx].node].local_offset = ZeroOffset

\* ------------------------------------------------------------------ C20
BorrowCountsViews ==
    \A n \in Nodes :
        borrow[n] = IF ExclOn(n) # {} THEN -1 ELSE Cardinality(SharedOn(n))

\* what each operation leaves outstanding
ViewsLeft ==
    \A c \in DOMAIN ctxs :
        LET n == ctxs[c].node
            lookup == Did("try_parent_data") \/ Did("try_parent_data_mut") IN
        /\ ((Did("size") \/ Did("set_parent_data") \/ Did("child") \/ Did("try_child")
                \/ Did("children") \/ (lookup /\ result'.status # "ok"))
               /\ result'.ctx = c) =>
              /\ views' = views
              /\ borrow' = borrow
        /\ (lookup /\ result'.ctx = c /\ result'.status = "ok") =>
              /\ Len(views') = Len(views) + 1
              /\ SubSeq(views', 1, Len(views)) = views
              /\ views'[Len(views')].node = n
              /\ views'[Len(views')].ctx = c
              /\ views'[Len(views')].excl = Did("try_parent_data_mut")
        /\ PaintInvoked(c) =>
              /\ borrow'[n] = 0
              /\ {i \in DOMAIN views' : views'[i].node = n} = {}

\* the widget that was handed h may write the parent data of its node
\* unless it holds a view on it itself
WidgetMayWrite ==
    \A c \in DOMAIN ctxs :
        ((Did("set_parent_data") \/ Did("try_parent_data_mut"))
            /\ result'.ctx = c /\ depth > 0 /\ c = stack[depth].handed
            /\ \A i \in ViewsOn(ctxs[c].node) : ctxs[views[i].ctx].owner # depth) =>
                result'.status # "panic"

\* C20: the views outstanding on a node are exactly the kept handles of
\* successful parent_data / parent_data_mut calls; the other operations and
\* a lookup that returns nothing leave none; paint holds none when it invokes
\* the widget, which may then write the node's parent data.
C20_ViewsAreHandles == []BorrowCountsViews /\ [][ViewsLeft /\ WidgetMayWrite]_vars

\* the widget of a painted node has set the node's parent data through the
\* context it was handed and holds two handles on it
C20_Witness ==
    /\ depth = 1
    /\ result.op = "try_parent_data"
    /\ result.status = "ok"
    /\ result.ctx = stack[1].handed
    /\ Len(views) = 2
    /\ borrow[ctxs[result.ctx].node] = 2
    /\ render_data[ctxs[result.ctx].node].parent_data # <<UnitType, 0>>
====
